---- MODULE Spec2Model ----
(***************************************************************************)
(* Model of pkg/commands/docker.go: the DockerCommand registry of          *)
(* containers and services, its refresh / display pipeline, the detail     *)
(* update and the stats monitors.                                          *)
(*                                                                         *)
(* Container objects live in a heap (address -> fields) because the code   *)
(* shares them by pointer between c.Containers, c.DisplayContainers,       *)
(* Service.Container and the monitor goroutines.  Go strings that are      *)
(* searched, trimmed, split or ordered (names, label values, ignore        *)
(* entries, compose output) are byte sequences; map keys and the runtime   *)
(* state, which are only compared with literals, are TLA+ strings.         *)
(***************************************************************************)
EXTENDS Integers, Sequences, FiniteSets, Bags, TLC

VARIABLES
    heap,                   \* address -> Container object (the allocated *Container values)
    Containers,             \* c.Containers: sequence of addresses
    DisplayContainers,      \* c.DisplayContainers: sequence of addresses
    services,               \* the []*Service slice the caller holds (nil before the first success)
    ShowExited,             \* c.ShowExited
    InDockerComposeProject, \* c.InDockerComposeProject
    Config,                 \* c.Config.UserConfig: Gui.ShowAllContainers, Gui.LegacySortContainers, Ignore
    monitors,               \* bag of createClientStatMonitor goroutines: [c |-> address, pc |-> ...]
    scheduler,              \* the MonitorContainerStats goroutine: its position and ctx.Done()
    calls,                  \* the calls in flight that run step by step: caller -> frame
    locks,                  \* the holder of c.ContainerMutex and of c.ServiceMutex ("" when free)
    last                    \* the last operation performed and what it returned

vars == <<heap, Containers, DisplayContainers, services, ShowExited,
          InDockerComposeProject, Config, monitors, scheduler, calls, locks, last>>

-----------------------------------------------------------------------------
(* Bounds of the model *)

\* number of distinct container IDs the runtime can list
NumIDs == 2
\* longest listing ContainerList returns
MaxList == 2
\* longest stats history a monitor builds
MaxHist == 1
\* most monitor goroutines alive at once
MaxMonitors == 1
\* most monitor goroutines alive at once where the scheduler is studied
MaxTasks == 2
\* the calls each caller makes where calls run step by step
MaxCalls == 2
\* longest container list given to assignContainersToServices and
\* obtainStandaloneContainers on their own
MaxLen == 3
\* longest service list given to them
MaxServices == 2
\* longest container list given to the filters and the sort on their own
MaxPipe == 3

-----------------------------------------------------------------------------
(* Go values *)

\* the nil *Container
Nil == 0

\* a nil slice, and a non-nil slice holding the sequence s
NilSlice == [nil |-> TRUE, items |-> <<>>]
Slice(s) == [nil |-> FALSE, items |-> s]

Min(S) == CHOOSE x \in S : \A y \in S : x <= y

Range(s) == {s[i] : i \in 1..Len(s)}

\* "/"
Slash == <<47>>

\* strings.Contains(s, sub)
Contains(s, sub) ==
    \E i \in 1..(Len(s) - Len(sub) + 1) :
        \A k \in 1..Len(sub) : s[i + k - 1] = sub[k]

\* Go's s < t on strings: bytewise lexicographic order
RECURSIVE StrLess(_, _)
StrLess(s, t) ==
    IF t = <<>> THEN FALSE
    ELSE IF s = <<>> THEN TRUE
    ELSE IF s[1] # t[1] THEN s[1] < t[1]
    ELSE StrLess(Tail(s), Tail(t))

\* strings.TrimLeft(s, cutset): drop every leading byte that is in cutset
RECURSIVE TrimLeft(_, _)
TrimLeft(s, cutset) ==
    IF s # <<>> /\ s[1] \in Range(cutset) THEN TrimLeft(Tail(s), cutset) ELSE s

\* m[k] on a map[string]string: the zero value "" when the key is absent
Label(labels, k) == IF k \in DOMAIN labels THEN labels[k] ELSE <<>>

-----------------------------------------------------------------------------
(* assignContainersToServices and obtainStandaloneContainers *)

\* a scan that keeps the last match instead of the first
AssignScanLast(h, containers, name, i) ==
    LET m == {k \in i..Len(containers) :
                 ~h[containers[k]].OneOff /\ h[containers[k]].ServiceName = name}
    IN IF m = {} THEN Nil ELSE containers[CHOOSE k \in m : \A j \in m : j <= k]

\* the inner loop of assignContainersToServices for one service: scan from
\* position i, stop at the first match, nil when the scan runs out
RECURSIVE AssignScan(_, _, _, _)
AssignScan(h, containers, name, i) ==
    IF i > Len(containers) THEN Nil
    ELSE IF ~h[containers[i]].OneOff /\ h[containers[i]].ServiceName = name
         THEN containers[i]
         ELSE AssignScan(h, containers, name, i + 1)

assignContainersToServices(h, containers, svcs) ==
    [i \in 1..Len(svcs) |->
        [svcs[i] EXCEPT !.Container = AssignScan(h, containers, svcs[i].Name, 1)]]

\* the test without its one-off condition
BackedByServiceNoOneOff(h, a, svcs) ==
    \E j \in 1..Len(svcs) :
        /\ h[a].ServiceName # <<>>
        /\ h[a].ServiceName = svcs[j].Name

\* the test without its empty-label condition
BackedByServiceNoEmpty(h, a, svcs) ==
    \E j \in 1..Len(svcs) :
        /\ ~h[a].OneOff
        /\ h[a].ServiceName = svcs[j].Name

\* the inner loop of obtainStandaloneContainers: TRUE when some service makes
\* the loop `continue L`
BackedByService(h, a, svcs) ==
    \E j \in 1..Len(svcs) :
        /\ ~h[a].OneOff
        /\ h[a].ServiceName # <<>>
        /\ h[a].ServiceName = svcs[j].Name

obtainStandaloneContainers(h, containers, svcs) ==
    LET keep(a) == ~BackedByService(h, a, svcs)
    IN SelectSeq(containers, keep)

-----------------------------------------------------------------------------
(* the display pipeline *)

\* a filter that does not consult ShowExited
filterOutExitedAlways(h, showExited, containers) ==
    LET keep(a) == h[a].Container.State # "exited"
    IN SelectSeq(containers, keep)

filterOutExited(h, showExited, containers) ==
    IF showExited THEN containers
    ELSE LET keep(a) == h[a].Container.State # "exited"
         IN SelectSeq(containers, keep)

\* lo.SomeBy(c.Config.UserConfig.Ignore, ...) for one container
Ignored(h, ignore, a) ==
    \E i \in 1..Len(ignore) : Contains(h[a].Name, ignore[i])

filterOutIgnoredContainers(h, ignore, containers) ==
    LET keep(a) == ~Ignored(h, ignore, a)
    IN SelectSeq(containers, keep)

\* the states map of sortedContainers; a missing key reads as 0
StateRank(state) ==
    CASE state = "running" -> 1
      [] state = "exited"  -> 2
      [] state = "created" -> 3
      [] OTHER -> 0

\* a comparison that forgets the state
LessByNameOnly(h, a, b) == StrLess(h[a].Name, h[b].Name)

\* the less function handed to sort.Slice
Less(h, a, b) ==
    LET stateLeft  == StateRank(h[a].Container.State)
        stateRight == StateRank(h[b].Container.State)
    IN IF stateLeft = stateRight
       THEN StrLess(h[a].Name, h[b].Name)
       ELSE stateLeft < stateRight

\* sort.Slice(s, less): not stable, so every permutation of s that is ordered
\* by less is a possible result
SortSlice(h, s) ==
    LET n == Len(s)
        perms == {p \in [1..n -> 1..n] : \A i, j \in 1..n : i # j => p[i] # p[j]}
        sorted(p) == \A i, j \in 1..n : i < j => ~Less(h, s[p[j]], s[p[i]])
    IN {[i \in 1..n |-> s[p[i]]] : p \in {q \in perms : sorted(q)}}

\* the set of lists sortedContainers can return
sortedContainers(h, legacy, containers) ==
    IF ~legacy THEN SortSlice(h, containers) ELSE {containers}

-----------------------------------------------------------------------------
(* the heap of Container objects *)

EmptyHeap == [a \in {} |-> Nil]

Max(S) == CHOOSE x \in S : \A y \in S : y <= x

\* the address the next &Container{...} gets
NewAddr(h) == IF DOMAIN h = {} THEN 1 ELSE Max(DOMAIN h) + 1

\* the elements of a set of numbers in ascending order
RECURSIVE Ascending(_)
Ascending(S) == IF S = {} THEN <<>> ELSE <<Min(S)>> \o Ascending(S \ {Min(S)})

\* s without the elements of seen and without repetitions
RECURSIVE Fresh(_, _)
Fresh(s, seen) ==
    IF s = <<>> THEN <<>>
    ELSE IF s[1] \in seen THEN Fresh(Tail(s), seen)
    ELSE <<s[1]>> \o Fresh(Tail(s), seen \cup {s[1]})

\* the containers a result of an operation refers to
Returned(lst) == IF "containers" \in DOMAIN lst THEN lst.containers.items ELSE <<>>

\* The objects still referenced, in a fixed order: the held set, then what the
\* display list, the services and the last result add to it, then the objects
\* only a monitor still holds.  Objects no longer referenced are collected.
\* Addresses carry no meaning beyond identity, so each state is kept with its
\* live objects at addresses 1..n in this order.
LiveOrder(cs, ds, svcs, mons, lst) ==
    LET named == Fresh(cs \o ds \o [i \in 1..Len(svcs.items) |-> svcs.items[i].Container]
                          \o Returned(lst), {Nil})
    IN named \o Ascending({m.c : m \in BagToSet(mons)} \ Range(named))

Renaming(order) ==
    [a \in Range(order) |-> CHOOSE k \in 1..Len(order) : order[k] = a]

RenameSeq(ren, s) == [i \in 1..Len(s) |-> ren[s[i]]]

RenameServices(ren, svcs) ==
    [svcs EXCEPT !.items = [i \in 1..Len(svcs.items) |->
        [svcs.items[i] EXCEPT !.Container = IF @ = Nil THEN Nil ELSE ren[@]]]]

RenameMonitors(ren, mons) ==
    LET to(m) == [m EXCEPT !.c = ren[m.c]]
    IN [n \in {to(m) : m \in BagToSet(mons)} |->
          mons[CHOOSE m \in BagToSet(mons) : to(m) = n]]

RenameResult(ren, lst) ==
    IF "containers" \in DOMAIN lst
    THEN [lst EXCEPT !.containers.items = RenameSeq(ren, @)]
    ELSE lst

\* the next state: the given object graph, collected and renamed
Commit(h, cs, ds, svcs, mons, lst) ==
    LET order == LiveOrder(cs, ds, svcs, mons, lst)
        ren   == Renaming(order)
    IN /\ heap' = [a \in 1..Len(order) |-> h[order[a]]]
       /\ Containers' = RenameSeq(ren, cs)
       /\ DisplayContainers' = RenameSeq(ren, ds)
       /\ services' = RenameServices(ren, svcs)
       /\ monitors' = RenameMonitors(ren, mons)
       /\ last' = RenameResult(ren, lst)

-----------------------------------------------------------------------------
(* GetContainers *)

\* "True", the value of the one-off label that marks a one-off container
TrueMarker == <<84, 114, 117, 101>>

\* &Container{ID: container.ID, ...}: every other field has its zero value
NewContainer(id) ==
    [ID |-> id, Name |-> <<>>, ServiceName |-> <<>>, ProjectName |-> <<>>,
     ContainerNumber |-> <<>>, OneOff |-> FALSE,
     Container |-> [ID |-> 0, Names |-> <<>>, Labels |-> <<>>, State |-> ""],
     MonitoringStats |-> FALSE, StatHistory |-> <<>>, Details |-> 0]

\* a lookup that never finds the stored object
FindExistingNever(h, existing, id) == Nil

\* a lookup among every Container object the process still has
FindExistingAnywhere(h, existing, id) ==
    LET hits == {a \in DOMAIN h : h[a].ID = id}
    IN IF hits = {} THEN Nil ELSE Min(hits)

\* the loop over existingContainers: the first one with this ID, or nil
FindExisting(h, existing, id) ==
    LET hits == {k \in 1..Len(existing) : h[existing[k]].ID = id}
    IN IF hits = {} THEN Nil ELSE existing[Min(hits)]

\* the assignments that copy the listed summary into the object
Observe(obj, container) ==
    [obj EXCEPT
        !.Container = container,
        !.Name = IF "name" \in DOMAIN container.Labels
                 THEN container.Labels["name"]
                 ELSE TrimLeft(container.Names[1], Slash),
        !.ServiceName = Label(container.Labels, "com.docker.compose.service"),
        !.ProjectName = Label(container.Labels, "com.docker.compose.project"),
        !.ContainerNumber = Label(container.Labels, "com.docker.compose.container"),
        !.OneOff = (Label(container.Labels, "com.docker.compose.oneoff") = TrueMarker)]

\* the loop over the listed containers, from position i on
RECURSIVE GetContainersLoop(_, _, _, _, _)
GetContainersLoop(h, existing, containers, i, own) ==
    IF i > Len(containers) THEN [heap |-> h, own |-> own]
    ELSE LET container == containers[i]
             found == FindExisting(h, existing, container.ID)
             addr  == IF found # Nil THEN found ELSE NewAddr(h)
             base  == IF found # Nil THEN h[found] ELSE NewContainer(container.ID)
             obj   == Observe(base, container)
             h2    == [a \in (DOMAIN h) \cup {addr} |-> IF a = addr THEN obj ELSE h[a]]
         IN GetContainersLoop(h2, existing, containers, i + 1, Append(own, addr))

\* list is what Client.ContainerList returned: an error, or the summaries
GetContainers(h, existing, list) ==
    IF list.err THEN [err |-> TRUE, heap |-> h, own |-> NilSlice]
    ELSE LET r == GetContainersLoop(h, existing, list.containers, 1, <<>>)
         IN [err |-> FALSE, heap |-> r.heap, own |-> Slice(r.own)]

-----------------------------------------------------------------------------
(* GetServices *)

\* strings.Split(str, " ")
RECURSIVE SplitSpace(_, _, _)
SplitSpace(str, cur, acc) ==
    IF str = <<>> THEN Append(acc, cur)
    ELSE IF str[1] = 32 THEN SplitSpace(Tail(str), <<>>, Append(acc, cur))
    ELSE SplitSpace(Tail(str), Append(cur, str[1]), acc)

\* a GetServices that reports an error outside a compose project too
GetServicesFailingOutsideCompose(inCompose, cmd) ==
    [err |-> TRUE, services |-> NilSlice]

\* cmd is what the compose config command gave: an error, or its output lines
GetServices(inCompose, cmd) ==
    IF ~inCompose THEN [err |-> FALSE, services |-> NilSlice]
    ELSE IF cmd.err THEN [err |-> TRUE, services |-> NilSlice]
    ELSE [err |-> FALSE,
          services |-> Slice([i \in 1..Len(cmd.lines) |->
              LET arr == SplitSpace(cmd.lines[i], <<>>, <<>>)
              IN [Name |-> arr[1], ID |-> arr[2], Container |-> Nil]])]

-----------------------------------------------------------------------------
(* RefreshContainersAndServices *)

\* Whether the slice a stage returns lies on the backing array of the slice it
\* was given.  filterOutExited returns its argument itself when ShowExited is
\* on and a slice of its own otherwise.
filterOutExitedShares(showExited) == showExited

\* a filter that hands its argument back
filterOutIgnoredReturnsArgument(ignore) == TRUE

\* lo.Filter collects the kept elements in a slice of its own
filterOutIgnoredShares(ignore) == FALSE

\* lines 195-207, after both fetches succeeded: the set of outcomes (one per
\* order sort.Slice may produce).  c.Containers is assigned at line 202 and
\* shares its backing array with `containers`; sort.Slice at line 254 reorders
\* the array of the slice it is given, so the held set is reordered with it
\* when that slice still lies on the array of `containers`.
RefreshTail(h, containers, svcs, showExited, cfg) ==
    LET assigned == assignContainersToServices(h, containers, svcs.items)
        displayContainers ==
            IF ~cfg.ShowAllContainers
            THEN obtainStandaloneContainers(h, containers, assigned)
            ELSE containers
        exitedOut  == filterOutExited(h, showExited, displayContainers)
        ignoredOut == filterOutIgnoredContainers(h, cfg.Ignore, exitedOut)
        shared     == /\ cfg.ShowAllContainers
                      /\ filterOutExitedShares(showExited)
                      /\ filterOutIgnoredShares(cfg.Ignore)
    IN {[err |-> "", heap |-> h,
         Containers |-> IF shared /\ Len(d) = Len(containers) THEN d ELSE containers,
         DisplayContainers |-> d,
         callerServices |-> [svcs EXCEPT !.items = assigned],
         retContainers |-> Slice(d),
         retServices |-> [svcs EXCEPT !.items = assigned]]
        : d \in sortedContainers(h, cfg.LegacySortContainers, ignoredOut)}

\* what an early `return nil, nil, err` leaves behind: h is the heap at that point
RefreshError(st, h, err) ==
    [err |-> err, heap |-> h, Containers |-> st.Containers,
     DisplayContainers |-> st.DisplayContainers, callerServices |-> st.services,
     retContainers |-> NilSlice, retServices |-> NilSlice]

\* a refresh that empties the registry when the listing fails
RefreshOutcomesDroppingHeld(st, currentServices, list, cmd) ==
    LET g == GetContainers(st.heap, st.Containers, list)
    IN IF g.err
       THEN {[RefreshError(st, g.heap, "list") EXCEPT !.Containers = <<>>,
                                                       !.DisplayContainers = <<>>]}
       ELSE LET s == IF ~currentServices.nil
                     THEN [err |-> FALSE, services |-> currentServices]
                     ELSE GetServices(st.InDockerComposeProject, cmd)
            IN IF s.err THEN {RefreshError(st, g.heap, "services")}
               ELSE RefreshTail(g.heap, g.own.items, s.services, st.ShowExited, st.Config)

\* the whole call: st is the DockerCommand and the caller's services,
\* currentServices the argument, list and cmd what the two collaborators answer
RefreshOutcomes(st, currentServices, list, cmd) ==
    LET g == GetContainers(st.heap, st.Containers, list)
    IN IF g.err THEN {RefreshError(st, g.heap, "list")}
       ELSE LET s == IF ~currentServices.nil
                     THEN [err |-> FALSE, services |-> currentServices]
                     ELSE GetServices(st.InDockerComposeProject, cmd)
            IN IF s.err THEN {RefreshError(st, g.heap, "services")}
               ELSE RefreshTail(g.heap, g.own.items, s.services, st.ShowExited, st.Config)

\* how the service set of a call was obtained
Discovery(st, currentServices, list, cmd) ==
    IF list.err THEN "none"
    ELSE IF ~currentServices.nil THEN "cached"
    ELSE IF ~st.InDockerComposeProject THEN "unavailable"
    ELSE IF cmd.err THEN "failed"
    ELSE "resolved"

-----------------------------------------------------------------------------
(* UpdateContainerDetails *)

\* a loop that returns at the first failed inspect
UpdateDetailsStoppingAtFailure(h, containers, results, i, log) ==
    LET fails == {k \in i..Len(containers) : results[k].err}
        stop  == IF fails = {} THEN Len(containers) ELSE Min(fails)
        done  == {containers[k] : k \in i..stop} \ {containers[k] : k \in fails}
    IN [heap |-> [a \in DOMAIN h |->
                    IF a \in done
                    THEN [h[a] EXCEPT !.Details =
                            results[Min({k \in i..stop : containers[k] = a})].details]
                    ELSE h[a]],
        log |-> log \o [k \in 1..(stop - i + 1) |-> h[containers[i + k - 1]].ID]]

\* the loop over c.Containers from position i on; results[i] is what
\* ContainerInspect answers for the i-th container; log collects the IDs inspected
RECURSIVE UpdateDetailsLoop(_, _, _, _, _)
UpdateDetailsLoop(h, containers, results, i, log) ==
    IF i > Len(containers) THEN [heap |-> h, log |-> log]
    ELSE LET container == containers[i]
             h2 == IF results[i].err THEN h
                   ELSE [h EXCEPT ![container].Details = results[i].details]
         IN UpdateDetailsLoop(h2, containers, results, i + 1,
                              Append(log, h[container].ID))

-----------------------------------------------------------------------------
(* what the collaborators can answer *)

\* "web", "db"
web == <<119, 101, 98>>
db  == <<100, 98>>

\* the container summaries the runtime lists, less their ID:
\* a running member of service web; an exited member of service db whose
\* one-off label is "False"; a created one-off run of service web; a paused
\* container outside compose, named by a name label
Shapes ==
    { [Names |-> <<Slash \o web>>, State |-> "running",
       Labels |-> [k \in {"com.docker.compose.service", "com.docker.compose.project",
                          "com.docker.compose.container"} |->
                     CASE k = "com.docker.compose.service" -> web
                       [] k = "com.docker.compose.project" -> <<112>>
                       [] OTHER -> <<49>>]],
      [Names |-> <<Slash \o db>>, State |-> "exited",
       Labels |-> [k \in {"com.docker.compose.service", "com.docker.compose.oneoff"} |->
                     IF k = "com.docker.compose.service" THEN db
                     ELSE <<70, 97, 108, 115, 101>>]],
      [Names |-> <<Slash \o <<114>>>>, State |-> "created",
       Labels |-> [k \in {"com.docker.compose.service", "com.docker.compose.oneoff"} |->
                     IF k = "com.docker.compose.service" THEN web ELSE TrueMarker]],
      [Names |-> <<Slash \o Slash \o <<120>>>>, State |-> "paused",
       Labels |-> [k \in {"name"} |-> <<108, 98>>]] }

Summaries ==
    {[ID |-> id, Names |-> sh.Names, Labels |-> sh.Labels, State |-> sh.State]
        : id \in 1..NumIDs, sh \in Shapes}

\* a listing names each container once
Listings ==
    {l \in UNION {[1..n -> Summaries] : n \in 0..MaxList} :
        \A i, j \in 1..Len(l) : i # j => l[i].ID # l[j].ID}

ListOutcomes == {[err |-> TRUE]} \cup {[err |-> FALSE, containers |-> l] : l \in Listings}

\* the listings made of running members of service web and one-off runs of it
FewListOutcomes ==
    {[err |-> TRUE]} \cup
    {[err |-> FALSE, containers |-> l] :
        l \in {m \in Listings : \A i \in 1..Len(m) : m[i].State \in {"running", "created"}}}

\* the listings made of running members of service web only
RunningListOutcomes ==
    {[err |-> TRUE]} \cup
    {[err |-> FALSE, containers |-> l] :
        l \in {m \in Listings : \A i \in 1..Len(m) : m[i].State = "running"}}

\* the same listings when the runtime has one container at most, with ID 1
SingleListOutcomes ==
    {l \in RunningListOutcomes :
        ~l.err => \A i \in 1..Len(l.containers) : l.containers[i].ID = 1}

\* the listings of a runtime with one container at most, with ID 1, which
\* runs as a member of service web or was created as a one-off run of it
TinyListOutcomes ==
    {l \in FewListOutcomes :
        ~l.err => \A i \in 1..Len(l.containers) : l.containers[i].ID = 1}

\* the lines of `docker-compose config --hash=*`: "web h", "db g"
ComposeLines == {<<>>, <<web \o <<32, 104>>>>, <<web \o <<32, 104>>, db \o <<32, 103>>>>}

CmdOutcomes == {[err |-> TRUE]} \cup {[err |-> FALSE, lines |-> l] : l \in ComposeLines}

\* what ContainerInspect answers
NumDetails == 2
InspectOutcomes == {[err |-> TRUE]} \cup {[err |-> FALSE, details |-> d] : d \in 1..NumDetails}

\* a line of the stats stream and what json.Unmarshal leaves in stats:
\* the zero value when the line does not parse
StatsLines == {"sample", "garbage"}
Unmarshal(line) == IF line = "sample" THEN 1 ELSE 0

\* the user configurations
Configs ==
    [ShowAllContainers : BOOLEAN, LegacySortContainers : BOOLEAN,
     Ignore : {<<>>, <<<<98>>>>}]

\* the configuration lazydocker ships with
DefaultConfig ==
    [ShowAllContainers |-> FALSE, LegacySortContainers |-> FALSE, Ignore |-> <<>>]

-----------------------------------------------------------------------------
(* the state machine *)

\* the scheduler before MonitorContainerStats is called, and in its select
NotStarted == [pc |-> "idle", done |-> FALSE]
Selecting  == [pc |-> "select", done |-> FALSE]

\* no call runs step by step, and both mutexes are free
NoCalls  == <<>>
Unlocked == [ContainerMutex |-> "", ServiceMutex |-> ""]

St == [heap |-> heap, Containers |-> Containers, DisplayContainers |-> DisplayContainers,
       services |-> services, ShowExited |-> ShowExited,
       InDockerComposeProject |-> InDockerComposeProject, Config |-> Config]

\* the DockerCommand NewDockerCommand returns, under some configuration
Constructed ==
    /\ heap = EmptyHeap
    /\ Containers = <<>>
    /\ DisplayContainers = <<>>
    /\ services = NilSlice
    /\ ShowExited = TRUE
    /\ InDockerComposeProject \in BOOLEAN
    /\ Config \in Configs
    /\ monitors = EmptyBag
    /\ locks = Unlocked
    /\ last = [op |-> "NewDockerCommand"]

Init ==
    /\ Constructed
    /\ scheduler = NotStarted
    /\ calls = NoCalls

\* a call of RefreshContainersAndServices whose listing is one of lists: the
\* caller passes the services it holds (nil until a call has returned some) and
\* keeps what a successful call returns
Refresh(lists) ==
    \E list \in lists :
      \E cmd \in (IF Discovery(St, services, list, [err |-> TRUE]) = "failed"
                  THEN CmdOutcomes ELSE {[err |-> TRUE]}) :
        \E r \in RefreshOutcomes(St, services, list, cmd) :
          /\ Commit(r.heap, r.Containers, r.DisplayContainers, r.callerServices, monitors,
                    [op |-> "RefreshContainersAndServices", err |-> r.err,
                     containers |-> r.retContainers, services |-> r.retServices,
                     discovery |-> Discovery(St, services, list, cmd),
                     listed |-> IF list.err THEN <<>>
                                ELSE [i \in 1..Len(list.containers) |->
                                        list.containers[i].ID]])
          /\ UNCHANGED <<ShowExited, InDockerComposeProject, Config, scheduler, calls, locks>>

RefreshContainersAndServices == Refresh(ListOutcomes)

\* the same call against a runtime whose containers all have one of two shapes
RefreshFew == Refresh(FewListOutcomes)

\* the same call against a runtime whose containers all run
RefreshRunning == Refresh(RunningListOutcomes)

\* the same call against a runtime with one running container at most
RefreshSingle == Refresh(SingleListOutcomes)

\* a call of UpdateContainerDetails
UpdateContainerDetails ==
    \E results \in [1..Len(Containers) -> InspectOutcomes] :
      LET r == UpdateDetailsLoop(heap, Containers, results, 1, <<>>)
      IN /\ Commit(r.heap, Containers, DisplayContainers, services, monitors,
                   [op |-> "UpdateContainerDetails", err |-> "",
                    inspected |-> r.log, results |-> results])
         /\ UNCHANGED <<ShowExited, InDockerComposeProject, Config, scheduler, calls, locks>>

\* the GUI flips c.ShowExited
ToggleShowExited ==
    /\ ShowExited' = ~ShowExited
    /\ Commit(heap, Containers, DisplayContainers, services, monitors,
              [op |-> "ToggleShowExited"])
    /\ UNCHANGED <<InDockerComposeProject, Config, scheduler, calls, locks>>

\* the goroutines one tick of MonitorContainerStats starts, for the held
\* containers from position i on
RECURSIVE Spawned(_, _, _)
Spawned(h, containers, i) ==
    IF i > Len(containers) THEN EmptyBag
    ELSE (IF ~h[containers[i]].MonitoringStats
          THEN SetToBag({[c |-> containers[i], pc |-> "spawned"]})
          ELSE EmptyBag) (+) Spawned(h, containers, i + 1)

\* a select that takes the ticker case whatever the loop's position
CanTickAfterReturn(sched) == TRUE

\* the select of MonitorContainerStats can take the ticker case
CanTick(sched) == sched.pc = "select"

\* the select can take the ctx.Done() case
CanReturn(sched) == sched.pc = "select" /\ sched.done

\* case <-ticker.C of MonitorContainerStats, with at most cap monitor
\* goroutines alive afterwards
TickUpTo(cap) ==
    LET new == Spawned(heap, Containers, 1)
        started(a) == [c |-> a, pc |-> "spawned"] \in BagToSet(new)
        for == SelectSeq(Containers, started)
    IN /\ CanTick(scheduler)
       /\ BagCardinality(monitors) + BagCardinality(new) <= cap
       /\ Commit(heap, Containers, DisplayContainers, services, monitors (+) new,
                 [op |-> "MonitorContainerStats",
                  spawned |-> [i \in 1..Len(for) |-> heap[for[i]].ID]])
       /\ UNCHANGED <<ShowExited, InDockerComposeProject, Config, scheduler, calls, locks>>

Tick == TickUpTo(MaxMonitors)

\* the same tick where a container can have a second goroutine
SchedulerTick == TickUpTo(MaxTasks)

\* the context of MonitorContainerStats is cancelled
Cancel ==
    /\ ~scheduler.done
    /\ scheduler' = [scheduler EXCEPT !.done = TRUE]
    /\ Commit(heap, Containers, DisplayContainers, services, monitors, [op |-> "cancel"])
    /\ UNCHANGED <<ShowExited, InDockerComposeProject, Config, calls, locks>>

\* case <-ctx.Done() of MonitorContainerStats
SchedulerReturns ==
    /\ CanReturn(scheduler)
    /\ scheduler' = [scheduler EXCEPT !.pc = "returned"]
    /\ Commit(heap, Containers, DisplayContainers, services, monitors,
              [op |-> "MonitorContainerStats returns"])
    /\ UNCHANGED <<ShowExited, InDockerComposeProject, Config, calls, locks>>

Move(m, pc) == (monitors (-) SetToBag({m})) (+) SetToBag({[m EXCEPT !.pc = pc]})

\* the position of the object a in the held set, 0 when it is not held
HeldAt(a) ==
    IF a \in Range(Containers) THEN Min({i \in 1..Len(Containers) : Containers[i] = a})
    ELSE 0

\* a step of the monitor goroutine m leaves the registry's fields alone
MonitorStep(h, mons, m, step, line) ==
    /\ Commit(h, Containers, DisplayContainers, services, mons,
              [op |-> "createClientStatMonitor", step |-> step, id |-> heap[m.c].ID,
               pos |-> HeldAt(m.c), line |-> line])
    /\ UNCHANGED <<ShowExited, InDockerComposeProject, Config, scheduler, calls, locks>>

\* an assignment that reaches the flag of every container
SetMonitoringStatsOfAll(h, a, v) ==
    [x \in DOMAIN h |-> [h[x] EXCEPT !.MonitoringStats = v]]

\* container.MonitoringStats = v
SetMonitoringStats(h, a, v) == [h EXCEPT ![a].MonitoringStats = v]

\* createClientStatMonitor starts: the flag is set, then the stream is asked for
MonitorStart ==
    \E m \in BagToSet(monitors) :
      /\ m.pc = "spawned"
      /\ MonitorStep(SetMonitoringStats(heap, m.c, TRUE), Move(m, "opening"), m,
                     "start", "")

\* Client.ContainerStats returns an error
MonitorOpenFails ==
    \E m \in BagToSet(monitors) :
      /\ m.pc = "opening"
      /\ MonitorStep(SetMonitoringStats(heap, m.c, FALSE), monitors (-) SetToBag({m}), m,
                     "open fails", "")

\* Client.ContainerStats returns the stream
MonitorOpens ==
    \E m \in BagToSet(monitors) :
      /\ m.pc = "opening"
      /\ MonitorStep(heap, Move(m, "streaming"), m, "opens", "")

\* Container.appendStats: the sample goes to the end of the history
appendStats(history, recordedStats) == Append(history, recordedStats)

\* scanner.Scan() delivers a line: it is unmarshalled and appended
MonitorScans ==
    \E m \in BagToSet(monitors), line \in StatsLines :
      /\ m.pc = "streaming"
      /\ Len(heap[m.c].StatHistory) < MaxHist
      /\ MonitorStep([heap EXCEPT ![m.c].StatHistory =
                         appendStats(@, [ClientStats |-> Unmarshal(line)])], monitors, m,
                     "scans", line)

\* scanner.Scan() returns false: the stream ended or failed
MonitorEnds ==
    \E m \in BagToSet(monitors) :
      /\ m.pc = "streaming"
      /\ MonitorStep(SetMonitoringStats(heap, m.c, FALSE), monitors (-) SetToBag({m}), m,
                     "ends", "")

-----------------------------------------------------------------------------
(* specifications *)

\* refreshes under every configuration
Next ==
    \/ RefreshContainersAndServices
    \/ ToggleShowExited

Spec == Init /\ [][Next]_vars

\* refreshes and detail updates under the default configuration
DetailInit == Init /\ Config = DefaultConfig

DetailNext ==
    \/ RefreshFew
    \/ UpdateContainerDetails

DetailSpec == DetailInit /\ [][DetailNext]_vars

\* refreshes, the monitor scheduler and the monitors under the default
\* configuration
MonitorInit ==
    /\ Constructed
    /\ Config = DefaultConfig
    /\ InDockerComposeProject
    /\ scheduler = Selecting
    /\ calls = NoCalls

MonitorNext ==
    \/ RefreshFew
    \/ Tick
    \/ MonitorStart
    \/ MonitorOpenFails
    \/ MonitorOpens
    \/ MonitorScans
    \/ MonitorEnds

MonitorSpec == MonitorInit /\ [][MonitorNext]_vars

\* the monitor scheduler until its cancellation, the monitors and the refreshes
\* of a runtime with one container, under the default configuration and
\* outside a compose project
SchedInit ==
    /\ Constructed
    /\ Config = DefaultConfig
    /\ ~InDockerComposeProject
    /\ scheduler = Selecting
    /\ calls = NoCalls

SchedNext ==
    \/ RefreshSingle
    \/ SchedulerTick
    \/ Cancel
    \/ SchedulerReturns
    \/ MonitorStart
    \/ MonitorOpenFails
    \/ MonitorOpens
    \/ MonitorEnds

SchedSpec == SchedInit /\ [][SchedNext]_vars

\* the ticker fires every second and the select takes a case that stays ready
SchedFairSpec ==
    /\ SchedInit
    /\ [][SchedNext]_vars
    /\ WF_vars(SchedulerTick)
    /\ WF_vars(SchedulerReturns)

\* the monitors reading their streams, with the scheduler running and the
\* refreshes, from the same start
StreamNext ==
    \/ RefreshRunning
    \/ SchedulerTick
    \/ MonitorStart
    \/ MonitorOpenFails
    \/ MonitorOpens
    \/ MonitorScans
    \/ MonitorEnds

StreamSpec == SchedInit /\ [][StreamNext]_vars

-----------------------------------------------------------------------------
(* RefreshContainersAndServices, GetContainers and UpdateContainerDetails step
   by step, for callers that run at the same time.  A frame holds the position
   of a caller and the locals of its call; `start` and `cmd` keep what the call
   found when it took its lock and what the compose command answered. *)

IdleFrame(kind, left) ==
    [kind |-> kind, pc |-> "idle", left |-> left, arg |-> NilSlice,
     list |-> [err |-> TRUE], cmd |-> [err |-> TRUE], existing |-> <<>>,
     containers |-> <<>>, svcs |-> NilSlice, display |-> <<>>, i |-> 0,
     start |-> <<>>]

\* a Lock() that never waits
CanLockAlways(mutex) == TRUE

\* mutex.Lock() returns only when the mutex is free
CanLock(mutex) == locks[mutex] = ""

\* the Container objects still referenced by the registry, a service or a call
Roots(cs, ds, svcs, frames) ==
    (Range(cs) \cup Range(ds)
       \cup {svcs.items[i].Container : i \in 1..Len(svcs.items)}
       \cup UNION {Range(frames[t].existing) \cup Range(frames[t].containers)
                     \cup Range(frames[t].display)
                     \cup {frames[t].svcs.items[i].Container :
                              i \in 1..Len(frames[t].svcs.items)}
                   : t \in DOMAIN frames})
      \ {Nil}

\* the next state of a step of caller t; objects no longer referenced are
\* collected
Step(t, frame, h, cs, ds, svcs, lk, lst) ==
    /\ calls' = [calls EXCEPT ![t] = frame]
    /\ heap' = [a \in Roots(cs, ds, svcs, calls') \cap DOMAIN h |-> h[a]]
    /\ Containers' = cs
    /\ DisplayContainers' = ds
    /\ services' = svcs
    /\ locks' = lk
    /\ last' = lst
    /\ UNCHANGED <<ShowExited, InDockerComposeProject, Config, monitors, scheduler>>

\* a step that changes the frame of t and the locks only
Local(t, frame, lk) ==
    Step(t, frame, heap, Containers, DisplayContainers, services, lk, last)

\* a caller calls RefreshContainersAndServices with the services it holds
CallRefresh ==
    \E t \in DOMAIN calls :
      /\ calls[t].kind = "refresh" /\ calls[t].pc = "idle" /\ calls[t].left > 0
      /\ Local(t, [calls[t] EXCEPT !.pc = "lock", !.left = @ - 1, !.arg = services],
               locks)

\* line 176: c.ServiceMutex.Lock()
RefreshLocks ==
    \E t \in DOMAIN calls :
      /\ calls[t].kind = "refresh" /\ calls[t].pc = "lock"
      /\ CanLock("ServiceMutex")
      /\ Local(t, [calls[t] EXCEPT !.pc = "get", !.start = St],
               [locks EXCEPT !.ServiceMutex = t])

\* a caller calls GetContainers itself
CallGetContainers ==
    \E t \in DOMAIN calls :
      /\ calls[t].kind = "get" /\ calls[t].pc = "idle" /\ calls[t].left > 0
      /\ Local(t, [calls[t] EXCEPT !.pc = "get", !.left = @ - 1], locks)

\* line 284: c.ContainerMutex.Lock()
GetContainersLocks ==
    \E t \in DOMAIN calls :
      /\ calls[t].pc = "get"
      /\ CanLock("ContainerMutex")
      /\ Local(t, [calls[t] EXCEPT !.pc = "listing"],
               [locks EXCEPT !.ContainerMutex = t])

\* What a read of c.Containers can give.  Line 202 writes the slice without
\* c.ContainerMutex, so the read races with that write when a refresh stands
\* before it: besides the slice as it is, the read can give the array of one
\* slice with the length of the other (here where that stays within the array).
HeldReads ==
    {Containers} \cup
    UNION {LET new == calls[t].containers
           IN (IF Len(Containers) <= Len(new)
               THEN {SubSeq(new, 1, Len(Containers))} ELSE {})
              \cup (IF Len(new) <= Len(Containers)
                    THEN {SubSeq(Containers, 1, Len(new))} ELSE {})
           : t \in {u \in DOMAIN calls : calls[u].pc = "store"}}

\* what a caller gets back from a direct GetContainers
GetReturn(frame, err, own) ==
    [op |-> "GetContainers", err |-> err, containers |-> own]

\* lines 287-292: c.Containers is read and the runtime is asked for its
\* containers; an error is returned at once (the deferred Unlock runs)
GetContainersLists(lists) ==
    \E t \in DOMAIN calls, list \in lists, existing \in HeldReads :
      /\ calls[t].pc = "listing"
      /\ IF list.err
         THEN IF calls[t].kind = "refresh"
              THEN Local(t, [calls[t] EXCEPT !.pc = "failed", !.list = list],
                         [locks EXCEPT !.ContainerMutex = ""])
              ELSE Step(t, IdleFrame(calls[t].kind, calls[t].left), heap, Containers,
                        DisplayContainers, services,
                        [locks EXCEPT !.ContainerMutex = ""],
                        GetReturn(calls[t], "list", NilSlice))
         ELSE Local(t, [calls[t] EXCEPT !.pc = "loop", !.list = list,
                                        !.existing = existing], locks)

\* lines 294-335: the loop over the listed containers, and the return
GetContainersLoops ==
    \E t \in DOMAIN calls :
      /\ calls[t].pc = "loop"
      /\ LET r == GetContainersLoop(heap, calls[t].existing, calls[t].list.containers,
                                    1, <<>>)
         IN IF calls[t].kind = "refresh"
            THEN Step(t, [calls[t] EXCEPT !.pc = "services", !.containers = r.own,
                                          !.existing = <<>>],
                      r.heap, Containers, DisplayContainers, services,
                      [locks EXCEPT !.ContainerMutex = ""], last)
            ELSE Step(t, IdleFrame(calls[t].kind, calls[t].left),
                      r.heap, Containers, DisplayContainers, services,
                      [locks EXCEPT !.ContainerMutex = ""],
                      GetReturn(calls[t], "", Slice(r.own)))

\* lines 184-193: the services given are used, or GetServices is called
RefreshServices ==
    \E t \in DOMAIN calls :
      /\ calls[t].pc = "services"
      /\ \E cmd \in (IF calls[t].arg.nil /\ InDockerComposeProject
                     THEN CmdOutcomes ELSE {[err |-> TRUE]}) :
           LET s == IF ~calls[t].arg.nil
                    THEN [err |-> FALSE, services |-> calls[t].arg]
                    ELSE GetServices(InDockerComposeProject, cmd)
           IN Local(t, IF s.err THEN [calls[t] EXCEPT !.pc = "failed", !.cmd = cmd]
                       ELSE [calls[t] EXCEPT !.pc = "assign", !.cmd = cmd,
                                             !.svcs = s.services],
                    locks)

\* lines 195-200: the Service objects are written (they are the caller's own
\* when the call was given services), and the containers to display chosen
RefreshAssigns ==
    \E t \in DOMAIN calls :
      /\ calls[t].pc = "assign"
      /\ LET f == calls[t]
             assigned == [f.svcs EXCEPT !.items =
                             assignContainersToServices(heap, f.containers, @)]
             display == IF ~Config.ShowAllContainers
                        THEN obtainStandaloneContainers(heap, f.containers,
                                                        assigned.items)
                        ELSE f.containers
         IN Step(t, [f EXCEPT !.pc = "store", !.svcs = assigned, !.display = display],
                 heap, Containers, DisplayContainers,
                 IF f.arg.nil THEN services ELSE assigned, locks, last)

\* line 202: c.Containers = containers
RefreshStores ==
    \E t \in DOMAIN calls :
      /\ calls[t].pc = "store"
      /\ Step(t, [calls[t] EXCEPT !.pc = "display"], heap, calls[t].containers,
              DisplayContainers, services, locks, last)

\* lines 203-205: c.DisplayContainers is filtered and sorted
RefreshDisplays ==
    \E t \in DOMAIN calls :
      /\ calls[t].pc = "display"
      /\ LET f == calls[t]
             exitedOut  == filterOutExited(heap, ShowExited, f.display)
             ignoredOut == filterOutIgnoredContainers(heap, Config.Ignore, exitedOut)
             shared     == /\ Config.ShowAllContainers
                           /\ filterOutExitedShares(ShowExited)
                           /\ filterOutIgnoredShares(Config.Ignore)
         IN \E d \in sortedContainers(heap, Config.LegacySortContainers, ignoredOut) :
              Step(t, [f EXCEPT !.pc = "return", !.display = d], heap,
                   IF shared /\ Len(d) = Len(Containers) THEN d ELSE Containers,
                   d, services, locks, last)

\* what the caller of a refresh gets back
RefreshReturn(t, frame, err, containers, svcs) ==
    [op |-> "RefreshContainersAndServices", err |-> err, containers |-> containers,
     services |-> svcs, caller |-> t, arg |-> frame.arg, start |-> frame.start,
     list |-> frame.list, cmd |-> frame.cmd]

\* line 207: the display list and the services are returned (the deferred
\* Unlock of c.ServiceMutex runs) and the caller keeps the services
RefreshReturns ==
    \E t \in DOMAIN calls :
      /\ calls[t].pc = "return"
      /\ Step(t, IdleFrame("refresh", calls[t].left), heap, Containers,
              DisplayContainers, calls[t].svcs, [locks EXCEPT !.ServiceMutex = ""],
              RefreshReturn(t, calls[t], "", Slice(DisplayContainers), calls[t].svcs))

\* lines 181 and 191: return nil, nil, err
RefreshFails ==
    \E t \in DOMAIN calls :
      /\ calls[t].pc = "failed"
      /\ Step(t, IdleFrame("refresh", calls[t].left), heap, Containers,
              DisplayContainers, services, [locks EXCEPT !.ServiceMutex = ""],
              RefreshReturn(t, calls[t], IF calls[t].list.err THEN "list" ELSE "services",
                            NilSlice, NilSlice))

\* a caller calls UpdateContainerDetails
CallUpdate ==
    \E t \in DOMAIN calls :
      /\ calls[t].kind = "update" /\ calls[t].pc = "idle" /\ calls[t].left > 0
      /\ Local(t, [calls[t] EXCEPT !.pc = "wait", !.left = @ - 1], locks)

\* line 373: c.ContainerMutex.Lock()
UpdateLocks ==
    \E t \in DOMAIN calls :
      /\ calls[t].pc = "wait"
      /\ CanLock("ContainerMutex")
      /\ Local(t, [calls[t] EXCEPT !.pc = "range"], [locks EXCEPT !.ContainerMutex = t])

\* line 376: the range expression c.Containers is evaluated, once
UpdateRanges ==
    \E t \in DOMAIN calls, held \in HeldReads :
      /\ calls[t].pc = "range"
      /\ Local(t, [calls[t] EXCEPT !.pc = "inspect", !.containers = held, !.i = 1], locks)

\* lines 377-382: one turn of the loop
UpdateInspects ==
    \E t \in DOMAIN calls, o \in InspectOutcomes :
      /\ calls[t].pc = "inspect"
      /\ calls[t].i <= Len(calls[t].containers)
      /\ Step(t, [calls[t] EXCEPT !.i = @ + 1],
              IF o.err THEN heap
              ELSE [heap EXCEPT ![calls[t].containers[calls[t].i]].Details = o.details],
              Containers, DisplayContainers, services, locks, last)

\* line 385: return nil (the deferred Unlock runs)
UpdateReturns ==
    \E t \in DOMAIN calls :
      /\ calls[t].pc = "inspect"
      /\ calls[t].i > Len(calls[t].containers)
      /\ Step(t, IdleFrame("update", calls[t].left), heap, Containers, DisplayContainers,
              services, [locks EXCEPT !.ContainerMutex = ""],
              [op |-> "UpdateContainerDetails", err |-> ""])

\* The registry when the callers start: NewDockerCommand has returned inside a
\* compose project with service web, and the first refresh, which found no
\* container, has given the caller its services.
FirstServices ==
    GetServices(TRUE, [err |-> FALSE, lines |-> <<web \o <<32, 104>>>>]).services

Running(callers) ==
    /\ heap = EmptyHeap
    /\ Containers = <<>>
    /\ DisplayContainers = <<>>
    /\ services = FirstServices
    /\ ShowExited = TRUE
    /\ InDockerComposeProject = TRUE
    /\ Config = DefaultConfig
    /\ monitors = EmptyBag
    /\ scheduler = NotStarted
    /\ locks = Unlocked
    /\ calls = callers
    /\ last = [op |-> "RefreshContainersAndServices", err |-> "",
               containers |-> Slice(<<>>), services |-> FirstServices,
               discovery |-> "resolved", listed |-> <<>>]

\* the steps of a refresh
RefreshSteps(lists) ==
    \/ CallRefresh
    \/ RefreshLocks
    \/ GetContainersLocks
    \/ GetContainersLists(lists)
    \/ GetContainersLoops
    \/ RefreshServices
    \/ RefreshAssigns
    \/ RefreshStores
    \/ RefreshDisplays
    \/ RefreshReturns
    \/ RefreshFails

\* two callers of RefreshContainersAndServices
TwoRefreshInit ==
    Running([t \in {"r1", "r2"} |-> IdleFrame("refresh", MaxCalls)])

TwoRefreshNext == RefreshSteps(TinyListOutcomes)

TwoRefreshSpec == TwoRefreshInit /\ [][TwoRefreshNext]_vars

\* a caller of RefreshContainersAndServices and a caller of
\* UpdateContainerDetails
OverlapInit ==
    Running([t \in {"r", "u"} |->
                IdleFrame(IF t = "r" THEN "refresh" ELSE "update", MaxCalls)])

OverlapNext ==
    \/ RefreshSteps(RunningListOutcomes)
    \/ CallUpdate
    \/ UpdateLocks
    \/ UpdateRanges
    \/ UpdateInspects
    \/ UpdateReturns

OverlapSpec == OverlapInit /\ [][OverlapNext]_vars

\* a caller of RefreshContainersAndServices and a caller of GetContainers
DirectInit ==
    Running([t \in {"r", "g"} |->
                IdleFrame(IF t = "r" THEN "refresh" ELSE "get", MaxCalls)])

DirectNext ==
    \/ RefreshSteps(TinyListOutcomes)
    \/ CallGetContainers

DirectSpec == DirectInit /\ [][DirectNext]_vars

-----------------------------------------------------------------------------
(* assignContainersToServices and obtainStandaloneContainers on their own *)

\* the fields of the registry these functions do not read
Idle ==
    /\ DisplayContainers = <<>>
    /\ InDockerComposeProject = TRUE
    /\ monitors = EmptyBag
    /\ scheduler = NotStarted
    /\ calls = NoCalls
    /\ locks = Unlocked
    /\ last = [op |-> "input"]

\* every list of up to MaxLen containers, each one-off or not and labelled with
\* no service, web or db, and every list of up to MaxServices services named
\* "", web or db, each referring to no container or to a stale one
AssignInit ==
    /\ \E n \in 0..MaxLen :
         /\ heap \in [1..n -> {[NewContainer(0) EXCEPT !.OneOff = o, !.ServiceName = sn]
                                 : o \in BOOLEAN, sn \in {<<>>, web, db}}]
         /\ Containers = [i \in 1..n |-> i]
         /\ \E k \in 0..MaxServices :
              \E svcs \in [1..k -> [Name : {<<>>, web, db}, ID : {<<>>},
                                    Container : {Nil} \cup ((1..n) \cap {1})]] :
                services = Slice(svcs)
    /\ ShowExited = TRUE
    /\ Config = DefaultConfig
    /\ Idle

AssignFrame == UNCHANGED <<heap, Containers, DisplayContainers, ShowExited,
                           InDockerComposeProject, Config, monitors, scheduler,
                           calls, locks>>

\* a call of assignContainersToServices
Assign ==
    /\ services' = [services EXCEPT !.items =
                       assignContainersToServices(heap, Containers, services.items)]
    /\ last' = [op |-> "assignContainersToServices", was |-> services]
    /\ AssignFrame

\* a call of obtainStandaloneContainers
Standalone ==
    /\ last' = [op |-> "obtainStandaloneContainers",
                containers |-> Slice(obtainStandaloneContainers(heap, Containers,
                                                                services.items))]
    /\ UNCHANGED services
    /\ AssignFrame

\* lines 195-199 with ShowAllContainers off: the assignment, then the standalone
\* containers of the same lists
AssignThenStandalone ==
    /\ services' = [services EXCEPT !.items =
                       assignContainersToServices(heap, Containers, services.items)]
    /\ last' = [op |-> "assign+standalone",
                containers |-> Slice(obtainStandaloneContainers(heap, Containers,
                                                                services'.items))]
    /\ AssignFrame

AssignNext ==
    \/ Assign
    \/ Standalone
    \/ AssignThenStandalone

AssignSpec == AssignInit /\ [][AssignNext]_vars

-----------------------------------------------------------------------------
(* the filters and the sort on their own *)

\* "a", "b", "ab"
PipeNames == {<<97>>, <<98>>, <<97, 98>>}

PipeStates == {"running", "exited", "created", "paused"}

\* every list of up to MaxPipe containers, each with one of the names and one
\* of the states, under every setting the three functions read
PipeInit ==
    /\ \E n \in 0..MaxPipe :
         /\ heap \in [1..n -> {[NewContainer(0) EXCEPT !.Name = nm, !.Container.State = st]
                                 : nm \in PipeNames, st \in PipeStates}]
         /\ Containers = [i \in 1..n |-> i]
    /\ services = NilSlice
    /\ ShowExited \in BOOLEAN
    /\ Config \in [ShowAllContainers : {TRUE}, LegacySortContainers : BOOLEAN,
                   Ignore : {<<>>, <<<<98>>>>, <<<<97, 98>>, <<120>>>>}]
    /\ Idle

PipeFrame == UNCHANGED <<heap, Containers, DisplayContainers, services, ShowExited,
                         InDockerComposeProject, Config, monitors, scheduler, calls,
                         locks>>

\* a call of filterOutExited
FilterExited ==
    /\ last' = [op |-> "filterOutExited",
                out |-> filterOutExited(heap, ShowExited, Containers)]
    /\ PipeFrame

\* a call of filterOutIgnoredContainers, and a second one on its result
FilterIgnored ==
    LET once == filterOutIgnoredContainers(heap, Config.Ignore, Containers)
    IN /\ last' = [op |-> "filterOutIgnoredContainers", out |-> once,
                   again |-> filterOutIgnoredContainers(heap, Config.Ignore, once)]
       /\ PipeFrame

\* a call of sortedContainers
Sort ==
    \E out \in sortedContainers(heap, Config.LegacySortContainers, Containers) :
      /\ last' = [op |-> "sortedContainers", out |-> out]
      /\ PipeFrame

PipeNext ==
    \/ FilterExited
    \/ FilterIgnored
    \/ Sort

PipeSpec == PipeInit /\ [][PipeNext]_vars

-----------------------------------------------------------------------------
(* properties of assignContainersToServices and obtainStandaloneContainers,
   checked under AssignSpec *)

OneOffOf(a) == heap[a].OneOff
ServiceNameOf(a) == heap[a].ServiceName
ServiceNames == {services.items[i].Name : i \in 1..Len(services.items)}

\* the positions of the containers that are not one-off and labelled name
Members(name) ==
    {k \in 1..Len(Containers) :
        ~OneOffOf(Containers[k]) /\ ServiceNameOf(Containers[k]) = name}

\* the containers some service refers to
Assigned == {services.items[i].Container : i \in 1..Len(services.items)} \ {Nil}

\* C2: after assignContainersToServices every service refers to the first
\* container in list order that is not one-off and labelled with the service's
\* name, and to no container when there is none; nothing else of a service
\* changes.
C2_AssignFirstMatch ==
    last.op = "assignContainersToServices" =>
        /\ Len(services.items) = Len(last.was.items)
        /\ \A i \in 1..Len(services.items) :
             LET svc == services.items[i]
             IN /\ svc.Name = last.was.items[i].Name
                /\ svc.ID = last.was.items[i].ID
                /\ svc.Container = IF Members(svc.Name) = {} THEN Nil
                                   ELSE Containers[Min(Members(svc.Name))]
                /\ svc.Container # Nil =>
                     /\ ~OneOffOf(svc.Container)
                     /\ ServiceNameOf(svc.Container) = svc.Name

\* two containers compete for one service and the first wins, while another
\* service loses the stale reference it had
C2_Witness ==
    /\ last.op = "assignContainersToServices"
    /\ \E i, j \in 1..Len(services.items) :
         /\ Cardinality(Members(services.items[i].Name)) >= 2
         /\ services.items[i].Container # Nil
         /\ last.was.items[j].Container # Nil
         /\ services.items[j].Container = Nil

StandaloneSet == Range(last.containers.items)

\* a container that is not one-off and shares its non-empty service label, the
\* name of a service, with an earlier container that is not one-off
LaterDuplicate(k) ==
    /\ ~OneOffOf(Containers[k])
    /\ ServiceNameOf(Containers[k]) # <<>>
    /\ ServiceNameOf(Containers[k]) \in ServiceNames
    /\ \E e \in Members(ServiceNameOf(Containers[k])) : e < k

\* C3 as claimed: after the assignment the assigned containers and the
\* standalone containers are disjoint and together are the whole list.  It is
\* stated for the service sets without an empty name, where it fails already
\* (with an empty-named service it fails in a second way: a container without
\* service label is then both assigned and standalone).
C3_Partition ==
    (last.op = "assign+standalone" /\ <<>> \notin ServiceNames) =>
        /\ Assigned \cap StandaloneSet = {}
        /\ Assigned \cup StandaloneSet = Range(Containers)

\* C3 as amended: both sets lie in the list; a container is in both exactly when
\* it is assigned and has an empty service label; it is in neither exactly when
\* it is a later duplicate of its service.
C3_PartitionAmended ==
    last.op = "assign+standalone" =>
        /\ Assigned \cup StandaloneSet \subseteq Range(Containers)
        /\ \A k \in 1..Len(Containers) :
             LET a == Containers[k]
             IN /\ (a \in Assigned /\ a \in StandaloneSet)
                     <=> (a \in Assigned /\ ServiceNameOf(a) = <<>>)
                /\ (a \notin Assigned /\ a \notin StandaloneSet) <=> LaterDuplicate(k)

\* a list with an assigned container, a standalone one and a later duplicate
C3_Witness ==
    /\ last.op = "assign+standalone"
    /\ \E k \in 1..Len(Containers) : LaterDuplicate(k)
    /\ Assigned \ StandaloneSet # {}
    /\ StandaloneSet \ Assigned # {}

\* C4: obtainStandaloneContainers returns, in input order, the containers that
\* are one-off, or have an empty service label, or are labelled with no service
\* of the set; and assignContainersToServices never assigns a one-off container
\* with an empty service label.
IsStandalone(a) ==
    \/ OneOffOf(a)
    \/ ServiceNameOf(a) = <<>>
    \/ ServiceNameOf(a) \notin ServiceNames

C4_Standalone ==
    /\ last.op = "obtainStandaloneContainers" =>
         last.containers.items = SelectSeq(Containers, IsStandalone)
    /\ last.op = "assignContainersToServices" =>
         \A a \in Range(Containers) :
            OneOffOf(a) /\ ServiceNameOf(a) = <<>> => a \notin Assigned

\* a service set with an empty-named service, a one-off container without
\* service label that is returned, and a container that is left out
C4_Witness ==
    /\ last.op = "obtainStandaloneContainers"
    /\ <<>> \in ServiceNames
    /\ \E a \in StandaloneSet : OneOffOf(a) /\ ServiceNameOf(a) = <<>>
    /\ \E a \in StandaloneSet : OneOffOf(a) /\ ServiceNameOf(a) \in ServiceNames \ {<<>>}
    /\ Range(Containers) \ StandaloneSet # {}

-----------------------------------------------------------------------------
(* properties of the filters and the sort, checked under PipeSpec *)

\* C6: filtering the ignored containers out of an already filtered list changes
\* nothing, and filterOutExited with ShowExited on returns its input.
C6_FilterComposition ==
    /\ last.op = "filterOutIgnoredContainers" => last.again = last.out
    /\ (last.op = "filterOutExited" /\ ShowExited) => last.out = Containers

\* the ignore filter dropped some containers and kept others
C6_Witness ==
    /\ last.op = "filterOutIgnoredContainers"
    /\ last.out # <<>>
    /\ Len(last.out) < Len(Containers)
    /\ Len(Config.Ignore) = 2

\* the rank of a runtime state, and s <= t in dictionary order
RankOf(a) ==
    LET st == heap[a].Container.State
    IN IF st = "running" THEN 1 ELSE IF st = "exited" THEN 2
       ELSE IF st = "created" THEN 3 ELSE 0

NameLeq(s, t) ==
    \E k \in 0..Len(s) :
        /\ k <= Len(t)
        /\ \A i \in 1..k : s[i] = t[i]
        /\ \/ k = Len(s)
           \/ k < Len(t) /\ s[k + 1] < t[k + 1]

StateOf(a) == heap[a].Container.State

-----------------------------------------------------------------------------
(* properties of the refresh *)

IsRefresh(l) == l.op = "RefreshContainersAndServices"

\* the fields of a Container a refresh overwrites, taken from `from`
WithObserved(obj, from) ==
    [obj EXCEPT !.Container = from.Container, !.Name = from.Name,
                !.ServiceName = from.ServiceName, !.ProjectName = from.ProjectName,
                !.ContainerNumber = from.ContainerNumber, !.OneOff = from.OneOff]

\* C1 (under MonitorSpec): in a successful refresh, a container ID held before
\* and listed again keeps its object: the history is not shorter, the
\* MonitoringStats flag is the same, every field but the observed attributes is
\* untouched, and the monitors that held the old entry hold the new one.
C1_IdentityPreserved ==
    [][(IsRefresh(last') /\ last'.err = "") =>
        \A i \in 1..Len(Containers), j \in 1..Len(Containers') :
            LET old == heap[Containers[i]]
                new == heap'[Containers'[j]]
            IN old.ID = new.ID =>
                 /\ Len(new.StatHistory) >= Len(old.StatHistory)
                 /\ new.MonitoringStats = old.MonitoringStats
                 /\ WithObserved(new, old) = old
                 /\ \A pc \in {"spawned", "opening", "streaming"} :
                      CopiesIn([c |-> Containers[i], pc |-> pc], monitors)
                        = CopiesIn([c |-> Containers'[j], pc |-> pc], monitors')
      ]_vars

\* right after a successful refresh a held container has samples in its history
\* and its monitor still streams: a new object would have neither
C1_Witness ==
    /\ IsRefresh(last) /\ last.err = ""
    /\ \E a \in Range(Containers) :
         /\ heap[a].StatHistory # <<>>
         /\ heap[a].MonitoringStats
         /\ heap[a].Container.State = "created"
         /\ [c |-> a, pc |-> "streaming"] \in BagToSet(monitors)

\* e occurs in name
HasSubstring(name, e) ==
    \E i \in 1..(Len(name) + 1), j \in 0..Len(name) : SubSeq(name, i, j) = e

Shown(a) ==
    /\ Config.ShowAllContainers \/ IsStandalone(a)
    /\ ShowExited \/ heap[a].Container.State # "exited"
    /\ \A k \in 1..Len(Config.Ignore) : ~HasSubstring(heap[a].Name, Config.Ignore[k])

\* the held set of the scenario: web (ID 1, service web, running), then db
\* (ID 2, service db, exited), with the services web and db
Scenario ==
    /\ Len(Containers) = 2
    /\ LET w == heap[Containers[1]]
           d == heap[Containers[2]]
       IN /\ w.ID = 1 /\ w.Name = web /\ w.ServiceName = web /\ ~w.OneOff
          /\ w.Container.State = "running"
          /\ d.ID = 2 /\ d.Name = db /\ d.ServiceName = db /\ ~d.OneOff
          /\ d.Container.State = "exited"
    /\ Len(services.items) = 2
    /\ services.items[1].Name = web
    /\ services.items[2].Name = db
    /\ ~ShowExited
    /\ ~Config.ShowAllContainers

\* C5 (under Spec): after a successful refresh the display list holds, once
\* each, exactly the held containers that are shown, and it is the list
\* returned; in the scenario it is empty while the services web and db refer to
\* the containers 1 and 2.
C5_DisplayList ==
    (IsRefresh(last) /\ last.err = "") =>
        /\ Range(DisplayContainers) = {a \in Range(Containers) : Shown(a)}
        /\ Cardinality(Range(DisplayContainers)) = Len(DisplayContainers)
        /\ last.containers = Slice(DisplayContainers)
        /\ Scenario =>
             /\ DisplayContainers = <<>>
             /\ heap[services.items[1].Container].ID = 1
             /\ heap[services.items[2].Container].ID = 2

C5_Witness ==
    /\ IsRefresh(last) /\ last.err = ""
    /\ Scenario
    /\ DisplayContainers = <<>>

\* C8 (under Spec): a refresh whose listing fails returns the error with no
\* containers and no services and changes nothing.
C8_ListFailureChangesNothing ==
    [][(IsRefresh(last') /\ last'.err = "list") =>
        /\ last'.containers = NilSlice
        /\ last'.services = NilSlice
        /\ UNCHANGED <<heap, Containers, DisplayContainers, services, ShowExited,
                       InDockerComposeProject, Config, monitors, scheduler, calls,
                       locks>>
      ]_vars

\* a listing failed while the registry held containers, showed one and a
\* service referred to one
C8_Witness ==
    /\ IsRefresh(last) /\ last.err = "list"
    /\ Len(Containers) = 2
    /\ DisplayContainers # <<>>
    /\ Assigned # {}

HeldIDs == [i \in 1..Len(Containers) |-> heap[Containers[i]].ID]

\* C9 as claimed: a refresh without cached services whose service discovery is
\* unavailable or fails returns no error, has no services and holds the
\* listed containers.
C9_DiscoveryNeverFails ==
    (IsRefresh(last) /\ last.discovery \in {"unavailable", "failed"}) =>
        /\ last.err = ""
        /\ last.services.items = <<>>
        /\ HeldIDs = last.listed

\* C9 as amended (under Spec): outside a compose project the refresh proceeds
\* with no services, holds the listed containers and returns the display list;
\* when the compose command fails the refresh returns that error with no
\* containers and no services, and the held set, the display list and the
\* caller's services stay as they were.
C9_DiscoveryAmended ==
    [][IsRefresh(last') =>
        /\ last'.discovery = "unavailable" =>
             /\ last'.err = ""
             /\ last'.services = NilSlice
             /\ services' = NilSlice
             /\ [i \in 1..Len(Containers') |-> heap'[Containers'[i]].ID] = last'.listed
             /\ last'.containers = Slice(DisplayContainers')
        /\ last'.discovery = "failed" =>
             /\ last'.err = "services"
             /\ last'.containers = NilSlice
             /\ last'.services = NilSlice
             /\ UNCHANGED <<Containers, DisplayContainers, services>>
      ]_vars

\* outside a compose project a refresh succeeded and holds two containers
C9_Witness ==
    /\ IsRefresh(last) /\ last.discovery = "unavailable"
    /\ ~InDockerComposeProject
    /\ last.err = ""
    /\ Len(Containers) = 2
    /\ DisplayContainers # <<>>

\* C19 (under Spec): after a successful refresh the held set is the listing,
\* entry by entry and in the listing's order, whatever the display pipeline did
\* under the settings in force; the display list is made of held containers.
C19_HeldSetIsListing ==
    (IsRefresh(last) /\ last.err = "") =>
        /\ Len(Containers) = Len(last.listed)
        /\ \A i \in 1..Len(Containers) : heap[Containers[i]].ID = last.listed[i]
        /\ \A i, j \in 1..Len(Containers) : i # j => Containers[i] # Containers[j]
        /\ Range(DisplayContainers) \subseteq Range(Containers)

\* with show-all and show-exited on and the sort not legacy, nothing was
\* filtered and the sort put the second listed container first in the display
\* list while the held set kept the listing's order
C19_Witness ==
    /\ IsRefresh(last) /\ last.err = ""
    /\ Config.ShowAllContainers /\ ShowExited /\ ~Config.LegacySortContainers
    /\ Len(Containers) = 2
    /\ DisplayContainers = <<Containers[2], Containers[1]>>
    /\ HeldIDs = last.listed

-----------------------------------------------------------------------------
(* properties of the monitor scheduler and the monitors *)

IsMonitorStep(l) == l.op = "createClientStatMonitor"
IsTick(l) == l.op = "MonitorContainerStats"

\* the goroutines that run createClientStatMonitor for the object a and have
\* not returned
TasksIn(mons, a) ==
    CopiesIn([c |-> a, pc |-> "spawned"], mons)
      + CopiesIn([c |-> a, pc |-> "opening"], mons)
      + CopiesIn([c |-> a, pc |-> "streaming"], mons)

TasksOf(a) == TasksIn(monitors, a)

\* C11 as claimed: no container ever has two createClientStatMonitor
\* goroutines that were spawned and have not returned.
C11_OneMonitorPerContainer ==
    \A a \in DOMAIN heap : TasksOf(a) <= 1

\* What can be seen of one container: its ID, flag, history, place in the held
\* set and the positions of its monitors.  The containers in use are the held
\* ones and the ones a monitor works on.
ViewOf(h, cs, mons, a) ==
    [id |-> h[a].ID, flag |-> h[a].MonitoringStats, hist |-> h[a].StatHistory,
     pos |-> IF a \in Range(cs) THEN Min({i \in 1..Len(cs) : cs[i] = a}) ELSE 0,
     spawned |-> CopiesIn([c |-> a, pc |-> "spawned"], mons),
     opening |-> CopiesIn([c |-> a, pc |-> "opening"], mons),
     streaming |-> CopiesIn([c |-> a, pc |-> "streaming"], mons)]

ViewsOf(h, cs, mons) ==
    LET inUse == Range(cs) \cup {m.c : m \in BagToSet(mons)}
        views == {ViewOf(h, cs, mons, a) : a \in inUse}
    IN [v \in views |-> Cardinality({a \in inUse : ViewOf(h, cs, mons, a) = v})]

\* what a step of a monitor makes of the view of its own container
AfterStep(v, step, line) ==
    CASE step = "start" ->
           [v EXCEPT !.flag = TRUE, !.spawned = @ - 1, !.opening = @ + 1]
      [] step = "open fails" ->
           [v EXCEPT !.flag = FALSE, !.opening = @ - 1]
      [] step = "opens" ->
           [v EXCEPT !.opening = @ - 1, !.streaming = @ + 1]
      [] step = "scans" ->
           [v EXCEPT !.hist = Append(@, [ClientStats |-> Unmarshal(line)])]
      [] step = "ends" ->
           [v EXCEPT !.flag = FALSE, !.streaming = @ - 1]

\* where the monitor has to be for the step
BeforeStep(v, step) ==
    CASE step = "start" -> v.spawned > 0
      [] step \in {"open fails", "opens"} -> v.opening > 0
      [] step \in {"scans", "ends"} -> v.streaming > 0

InUse(v) == v.pos > 0 \/ v.spawned + v.opening + v.streaming > 0

\* C12 (under StreamSpec): a monitor sets its container's flag when it starts,
\* before it asks for the stream; when the stream cannot be opened it clears the
\* flag and is gone, the history as it was; when the stream ends it clears the
\* flag and is gone; a line read only extends the history; and every step
\* leaves the registry and the flag, history and monitors of every other
\* container as they were.
C12_MonitorLifecycle ==
    [][IsMonitorStep(last') =>
        /\ UNCHANGED <<Containers, DisplayContainers, services, scheduler>>
        /\ \E v \in BagToSet(ViewsOf(heap, Containers, monitors)) :
             LET w == AfterStep(v, last'.step, last'.line)
             IN /\ v.id = last'.id
                /\ v.pos = last'.pos
                /\ BeforeStep(v, last'.step)
                /\ ViewsOf(heap', Containers', monitors') =
                     (ViewsOf(heap, Containers, monitors) (-) SetToBag({v}))
                        (+) (IF InUse(w) THEN SetToBag({w}) ELSE EmptyBag)
      ]_vars

\* the stream of the first held container could not be opened while the
\* monitor of the second one streams, with a sample in its history
C12_Witness ==
    /\ IsMonitorStep(last) /\ last.step = "open fails" /\ last.pos = 1
    /\ Len(Containers) = 2
    /\ ~heap[Containers[1]].MonitoringStats
    /\ heap[Containers[2]].MonitoringStats
    /\ heap[Containers[2]].StatHistory # <<>>
    /\ [c |-> Containers[2], pc |-> "streaming"] \in BagToSet(monitors)

\* the tick cannot go on only because the model holds no more goroutines
AtCap ==
    BagCardinality(monitors)
      + Cardinality({i \in 1..Len(Containers) : ~heap[Containers[i]].MonitoringStats})
      > MaxTasks

\* C13 (under SchedFairSpec): once the context is cancelled the scheduler
\* returns; after it has returned it stays returned and no monitor is added;
\* a monitor is only ever added by a tick of the running scheduler; and the
\* tick can be taken wherever the monitors stand.
C13_SchedulerStops ==
    /\ scheduler.done ~> scheduler.pc = "returned"
    /\ [][scheduler.pc = "returned" =>
            /\ scheduler'.pc = "returned"
            /\ BagCardinality(monitors') <= BagCardinality(monitors)]_vars
    /\ [][BagCardinality(monitors') > BagCardinality(monitors) =>
            IsTick(last') /\ scheduler.pc = "select"]_vars
    /\ []((scheduler.pc = "select" /\ ~AtCap) => ENABLED SchedulerTick)

\* the scheduler has returned while a held container is not monitored and a
\* monitor spawned earlier is still at work
C13_Witness ==
    /\ scheduler.pc = "returned"
    /\ \E a \in Range(Containers) : ~heap[a].MonitoringStats /\ TasksOf(a) = 0
    /\ \E m \in BagToSet(monitors) : m.pc \in {"spawned", "streaming"}

\* C14 as claimed, for the monitors of held containers: a line that does not
\* parse leaves the length of the history as it was, and the monitor goes on
\* reading.
C14_ParseFailureDropsSample ==
    [][(IsMonitorStep(last') /\ last'.step = "scans" /\ last'.line = "garbage"
          /\ last'.pos > 0) =>
        /\ Len(heap'[Containers'[last'.pos]].StatHistory)
             = Len(heap[Containers[last'.pos]].StatHistory)
        /\ [c |-> Containers'[last'.pos], pc |-> "streaming"] \in BagToSet(monitors')
      ]_vars

\* C16 as claimed: the process never has two Container objects with one ID (a
\* second object starts with an empty history and a cleared flag).
C16_OneObjectPerID ==
    \A a, b \in DOMAIN heap : heap[a].ID = heap[b].ID => a = b

\* C16 as amended (under StreamSpec): the held set never has two objects with
\* one ID; in a successful refresh a listed ID that was held keeps its history
\* and its flag, and a listed ID that was not held (never seen, or absent from
\* the listing before) gets a new object: empty history, flag off, no detail,
\* no monitor.
C16_IdentityWhileHeld ==
    /\ [](\A i, j \in 1..Len(Containers) :
            heap[Containers[i]].ID = heap[Containers[j]].ID => i = j)
    /\ [][(IsRefresh(last') /\ last'.err = "") =>
            \A j \in 1..Len(Containers') :
               LET new  == heap'[Containers'[j]]
                   olds == {i \in 1..Len(Containers) : heap[Containers[i]].ID = new.ID}
               IN IF olds # {}
                  THEN \A i \in olds :
                          /\ new.StatHistory = heap[Containers[i]].StatHistory
                          /\ new.MonitoringStats = heap[Containers[i]].MonitoringStats
                  ELSE /\ new.StatHistory = <<>>
                       /\ ~new.MonitoringStats
                       /\ new.Details = 0
                       /\ TasksIn(monitors', Containers'[j]) = 0
         ]_vars

\* after an ID was absent from a listing and is listed again, the held object
\* is new while the monitor spawned earlier still feeds the old one
C16_Witness ==
    /\ IsRefresh(last) /\ last.err = ""
    /\ \E a \in Range(Containers), z \in DOMAIN heap \ Range(Containers) :
         /\ heap[a].ID = heap[z].ID
         /\ heap[a].StatHistory = <<>> /\ ~heap[a].MonitoringStats
         /\ heap[z].StatHistory # <<>> /\ heap[z].MonitoringStats
         /\ [c |-> z, pc |-> "streaming"] \in BagToSet(monitors)

HeldID(id) == \E a \in Range(Containers) : heap[a].ID = id

\* a monitor of the held container with this ID has just returned
MonitorEnded(id) ==
    /\ IsMonitorStep(last) /\ last.step \in {"open fails", "ends"}
    /\ last.id = id /\ last.pos > 0

\* C17 as claimed: after a monitor of a held container has ended, a tick spawns
\* a monitor for that container, unless the scheduler is cancelled or the
\* container leaves the held set (or the model can hold no more goroutines);
\* and a tick spawns a monitor for exactly the held containers whose flag is
\* off.
C17_Respawn ==
    /\ \A id \in 1..NumIDs :
         MonitorEnded(id) ~>
            \/ IsTick(last) /\ id \in Range(last.spawned)
            \/ scheduler.done
            \/ ~HeldID(id)
            \/ AtCap
    /\ [](IsTick(last) =>
            LET off(a) == ~heap[a].MonitoringStats
                for == SelectSeq(Containers, off)
            IN /\ last.spawned = [i \in 1..Len(for) |-> heap[for[i]].ID]
               /\ \A a \in Range(for) : CopiesIn([c |-> a, pc |-> "spawned"], monitors) > 0)

-----------------------------------------------------------------------------
(* properties of calls that run at the same time *)

\* the caller is in UpdateContainerDetails, in the middle of its loop
Iterating(f) ==
    f.kind = "update" /\ f.pc = "inspect" /\ f.i <= Len(f.containers)

\* the caller is inside GetContainers, holding c.ContainerMutex
InGetContainers(f) == f.pc \in {"listing", "loop"}

ObservedOf(obj) ==
    [Container |-> obj.Container, Name |-> obj.Name, ServiceName |-> obj.ServiceName,
     ProjectName |-> obj.ProjectName, ContainerNumber |-> obj.ContainerNumber,
     OneOff |-> obj.OneOff]

\* C15 as claimed: while a caller of UpdateContainerDetails is in its loop, no
\* step replaces c.Containers or writes an observed field of a held container,
\* and no refresh is inside GetContainers; and while a refresh is inside
\* GetContainers no detail is written.
C15_NoOverlap ==
    [][\A u \in DOMAIN calls :
         /\ (Iterating(calls[u]) /\ Iterating(calls'[u])) =>
              /\ Containers' = Containers
              /\ \A a \in Range(Containers) \cap DOMAIN heap' :
                   ObservedOf(heap'[a]) = ObservedOf(heap[a])
              /\ \A r \in DOMAIN calls : ~InGetContainers(calls'[r])
         /\ (InGetContainers(calls[u]) /\ InGetContainers(calls'[u])) =>
              \A a \in DOMAIN heap \cap DOMAIN heap' : heap'[a].Details = heap[a].Details
      ]_vars

\* the caller holds c.ServiceMutex, between line 176 and its return
InRefresh(f) == f.kind = "refresh" /\ f.pc \notin {"idle", "lock"}

\* C18 (under TwoRefreshSpec): at most one call of
\* RefreshContainersAndServices is past its Lock at a time, and every call
\* returns having done exactly what a refresh running alone does from the
\* registry it found when it took the lock, with its listing: the held set, the
\* display list, the fields of their containers, the services and the values
\* returned are those of that one call.
C18_RefreshesSerialised ==
    /\ [](Cardinality({t \in DOMAIN calls : InRefresh(calls[t])}) <= 1)
    /\ [][\A t \in DOMAIN calls :
            (calls[t].pc \in {"return", "failed"} /\ calls'[t].pc = "idle") =>
               \E r \in RefreshOutcomes(calls[t].start, calls[t].arg, calls[t].list,
                                        calls[t].cmd) :
                  /\ last'.err = r.err
                  /\ last'.containers = r.retContainers
                  /\ last'.services = r.retServices
                  /\ Containers' = r.Containers
                  /\ DisplayContainers' = r.DisplayContainers
                  /\ services' = r.callerServices
                  /\ \A a \in Range(Containers') \cup Range(DisplayContainers') :
                       heap'[a] = r.heap[a]
         ]_vars

\* r2 has returned from a refresh that made the held container a one-off run;
\* it took the lock on a registry where r1's listing had made it a member of
\* service web, and r1 has called again and waits for the lock
C18_Witness ==
    /\ IsRefresh(last) /\ last.err = ""
    /\ "r1" \in DOMAIN calls /\ "caller" \in DOMAIN last
    /\ last.caller = "r2"
    /\ calls["r1"].pc = "lock"
    /\ Len(Containers) = 1
    /\ heap[Containers[1]].OneOff
    /\ Len(last.start.Containers) = 1
    /\ ~last.start.heap[last.start.Containers[1]].OneOff
    /\ services.items[1].Container = Nil

\* C20 as claimed: in every state every service that refers to a container
\* refers to one that is not one-off and carries the service's name.
C20_ServiceReferencesValid ==
    \A i \in 1..Len(services.items) :
        LET svc == services.items[i]
        IN svc.Container # Nil =>
             /\ ~heap[svc.Container].OneOff
             /\ heap[svc.Container].ServiceName = svc.Name

-----------------------------------------------------------------------------
(* properties of the detail update *)

\* C10 (under DetailSpec): UpdateContainerDetails inspects every held
\* container, in order, whatever the earlier inspects answered; a container
\* whose inspect succeeds gets the new detail, one whose inspect fails keeps
\* the detail it had; the call returns no error and changes nothing else.
C10_DetailsIsolated ==
    [][last'.op = "UpdateContainerDetails" =>
        /\ last'.err = ""
        /\ last'.inspected = HeldIDs
        /\ UNCHANGED <<Containers, DisplayContainers, services>>
        /\ DOMAIN heap' = DOMAIN heap
        /\ \A i \in 1..Len(Containers) :
             heap'[Containers[i]] =
                IF last'.results[i].err THEN heap[Containers[i]]
                ELSE [heap[Containers[i]] EXCEPT !.Details = last'.results[i].details]
      ]_vars

\* the first inspect failed and the second succeeded: the first container keeps
\* the detail of an earlier update, the second has the new one
C10_Witness ==
    /\ last.op = "UpdateContainerDetails"
    /\ Len(Containers) = 2
    /\ last.results[1].err
    /\ ~last.results[2].err
    /\ heap[Containers[1]].Details = 2
    /\ heap[Containers[2]].Details = 1
    /\ last.results[2].details = 1

====
